---- MODULE Spec2Model ----
(***************************************************************************)
(* Model of the S3I client of experiment-coordination-dashboard:           *)
(*   server_code/s3i/auth.py        Token, BaseAuthenticator               *)
(*   server_code/s3i/broker.py      Broker                                 *)
(*   server_code/background/fetch_messages.py   the drain loop             *)
(* Time is a discrete clock `now`; the identity provider and the broker    *)
(* are the environment and answer each request nondeterministically.       *)
(***************************************************************************)
EXTENDS Integers, Sequences, FiniteSets, TLC

\* ---------------------------------------------------------------- bounds
MaxTime == 2        \* the clock runs 0..MaxTime
MaxLife == 2        \* largest expires_in / refresh_expires_in the provider sends
MaxTokenId == 2     \* distinct access-token contents the provider hands out
MaxMsgs == 3        \* messages that ever arrive in the message queue
MaxCalls == 3       \* obtain_token calls the concurrent callers start
MaxObjects == 3     \* Brokers and stand-alone Authenticators ever constructed

\* ------------------------------------------------------- Optional[...] values
\* Optional[X] is a set with at most one element: None is {} and a value x is {x}.
None == {}
Some(x) == {x}
The(s) == CHOOSE x \in s : TRUE

\* -------------------------------------------------------------- Token
\* auth.py:17-33  the Token dataclass
Token(scheme, content, exp, rtok, rexp) ==
    [auth_scheme |-> scheme, token_content |-> content, expires_at |-> exp,
     refresh_token |-> rtok, refresh_expires_at |-> rexp]

\* auth.py:42  return datetime.now() < self.expires_at
expired(T, t) == t < T.expires_at

\* auth.py:51  return datetime.now() < self.refresh_expires_at
refresh_expired(T, t) == t < T.refresh_expires_at

\* an Authorization value without the scheme
full_token_ContentOnly(T) == <<T.token_content>>

\* auth.py:60  f"{self.auth_scheme} {self.token_content}"
full_token(T) == <<T.auth_scheme, T.token_content>>

\* auth.py:69  {"Authorization": self.full_token}
header(T) == [Authorization |-> full_token(T)]

\* ----------------------------------------------- identity-provider responses
\* auth.py:139  the exact text that means invalid client credentials
InvalidClientText == "{\"error\":\"invalid_client\",\"error_description\":\"Invalid client credentials\"}"

\* other error bodies the provider can send: a near miss of the text above and
\* an unrelated error
ErrorTexts == {InvalidClientText,
               "{\"error\": \"invalid_client\", \"error_description\": \"Invalid client credentials\"}",
               "{\"error\":\"invalid_grant\"}"}

ErrorStatuses == {400, 401, 500}

\* A response of the token endpoint. For status < 400 the body is JSON; `complete`
\* says whether it carries expires_in and refresh_expires_in (auth.py:155,157
\* index them, every other field is read with .get). The provider never hands
\* out the access token that is cached at the moment: its tokens are unique.
OkResponses(cache) ==
    { [status_code |-> 200, text |-> "json", complete |-> TRUE, token_type |-> "Bearer",
       access_token |-> a, expires_in |-> e, refresh_token |-> a,
       refresh_expires_in |-> r] :
         a \in (1..MaxTokenId) \ {T.token_content : T \in cache},
         e \in 1..MaxLife, r \in 0..MaxLife }

NoFields(status, body) ==
    [status_code |-> status, text |-> body, complete |-> FALSE, token_type |-> "",
     access_token |-> 0, expires_in |-> 0, refresh_token |-> 0, refresh_expires_in |-> 0]

\* a 2xx answer whose JSON lacks the lifetimes
MalformedResponse == NoFields(200, "json")

ErrorResponses == { NoFields(s, b) : s \in ErrorStatuses, b \in ErrorTexts }

IdpResponses(cache) == OkResponses(cache) \cup {MalformedResponse} \cup ErrorResponses

\* The answers the provider gives while the queue is drained: a token of the
\* longest lifetime, with a refresh token that lives as long, or a refusal.
DrainIdpResponses(cache) ==
    { r \in OkResponses(cache) :
        /\ r.expires_in = MaxLife /\ r.refresh_expires_in = MaxLife
        /\ \A q \in OkResponses(cache) : r.access_token <= q.access_token }
    \cup { NoFields(401, InvalidClientText) }

\* The answers the provider gives to the broker client's direct calls: the
\* same, or a server error.
BrokerIdpResponses(cache) ==
    DrainIdpResponses(cache) \cup { NoFields(500, "{\"error\":\"invalid_grant\"}") }

\* --------------------------------------------------------- BaseAuthenticator
\* Results of the private helpers: `raised` names the exception ("None" when the
\* call returns) and `value` is what it returns.
Returned(v) == [raised |-> "None", value |-> v]
Raised(e) == [raised |-> e, value |-> None]

\* auth.py:216-226  ClientAuthenticator._build_auth_payload
_build_auth_payload == [grant_type |-> "client_credentials", refresh_token |-> 0]

\* auth.py:138  if response.status_code >= 400
IsErrorStatus(status) == status >= 400

\* a looser comparison: any body that names invalid_client
IsInvalidClient_Loose(text) == text # "{\"error\":\"invalid_grant\"}"

\* auth.py:139  response.text == '{"error":"invalid_client",...}'
IsInvalidClient(text) == text = InvalidClientText

\* auth.py:122-158
_get_token_from_idp(response, t) ==
    IF IsErrorStatus(response.status_code)
    THEN IF IsInvalidClient(response.text)
         THEN Raised("InvalidCredentialsException")
         ELSE Raised("AuthenticationException")
    ELSE IF ~response.complete
         THEN Raised("KeyError")
         ELSE Returned(Some(Token(response.token_type, response.access_token,
                                  t + response.expires_in, response.refresh_token,
                                  t + response.refresh_expires_in)))

\* auth.py:170-173  the refresh-grant payload
RefreshPayload(T) == [grant_type |-> "refresh_token", refresh_token |-> T.refresh_token]

\* auth.py:160-183  (the function has no return statement: it returns None)
_refresh_token(response) ==
    IF IsErrorStatus(response.status_code)
    THEN Raised("AuthenticationException")
    ELSE Returned(None)

\* auth.py:107-114  which of the three branches obtain_token takes
Branch(cache, t) ==
    IF cache # None /\ ~expired(The(cache), t) THEN "reuse"
    ELSE IF cache # None /\ ~refresh_expired(The(cache), t) THEN "refresh"
    ELSE "full"

\* a client that sends the request again when it failed
Attempts_Retry(requests, failed) == IF failed THEN requests \o requests ELSE requests

\* auth.py:136, 176; broker.py:100, 134  one call of self.client.post / get,
\* in no loop
Attempts(requests, failed) == requests

\* auth.py:98-120  obtain_token: the new cache, the requests sent to the
\* identity provider, the exception raised ("None" if it returns) and the
\* token returned.
obtain_token(cache, t, response) ==
    LET branch == Branch(cache, t)
        requests == CASE branch = "reuse" -> <<>>
                      [] branch = "refresh" -> <<RefreshPayload(The(cache))>>
                      [] OTHER -> <<_build_auth_payload>>
        got == CASE branch = "reuse" -> Returned(cache)
                 [] branch = "refresh" -> _refresh_token(response)
                 [] OTHER -> _get_token_from_idp(response, t)
        assigned == IF got.raised = "None" THEN got.value ELSE cache
        raised == IF got.raised # "None" THEN got.raised
                  ELSE IF assigned = None THEN "AuthenticationException"
                  ELSE "None"
    IN [cache |-> assigned, branch |-> branch,
        requests |-> Attempts(requests, got.raised # "None"),
        response |-> IF branch = "reuse" THEN None ELSE Some(response),
        raised |-> raised,
        value |-> IF raised = "None" THEN assigned ELSE None]

\* a record of one obtain_token call: the cache and the time it started with and
\* everything it did
CallRecord(cache, t, r) ==
    [pre |-> cache, at |-> t, branch |-> r.branch, requests |-> r.requests,
     response |-> r.response, raised |-> r.raised, value |-> r.value, post |-> r.cache]

\* ------------------------------------------------------------ message bodies
\* What the handler reads of a message body: its messageType discriminator,
\* whether the fields of that shape are all there, the value map's "type" and
\* whether the value map is a valid ImageValue.
Body(mt, fields, vt, img) ==
    [messageType |-> mt, fields_ok |-> fields, value_type |-> vt, image_ok |-> img]

\* the bodies that arrive while the drain loop is studied: one that is handled
\* without effect, one that fails image validation, one that fails parsing
DrainBodies ==
    { Body("getValueRequest", TRUE, "none", FALSE),
      Body("getValueReply", TRUE, "b64 jpeg", FALSE),
      Body("setValueRequest", TRUE, "none", FALSE) }

\* the bodies given to the handler alone: also a valid image, a reply with
\* another value type, a request that carries a value map of type "b64 jpeg",
\* and a reply that lacks a field
Bodies ==
    { Body("getValueRequest", TRUE, "none", FALSE),
      Body("getValueRequest", TRUE, "b64 jpeg", TRUE),
      Body("getValueReply", TRUE, "b64 jpeg", TRUE),
      Body("getValueReply", TRUE, "b64 jpeg", FALSE),
      Body("getValueReply", TRUE, "text", FALSE),
      Body("setValueRequest", TRUE, "none", FALSE),
      Body("getValueReply", FALSE, "none", FALSE) }

\* message_models.py:36-43  S3IMessage: the union discriminated by messageType
model_validate_json(body) ==
    IF body.messageType \in {"getValueRequest", "getValueReply"} /\ body.fields_ok
    THEN Returned(Some(body))
    ELSE Raised("ValidationError")

\* a predicate that looks at the value map only
is_image_message_AnyType(message) == message.value_type = "b64 jpeg"

\* fetch_messages.py:13-15
is_image_message(message) ==
    message.messageType = "getValueReply" /\ message.value_type = "b64 jpeg"

\* camera/models.py:8-14  ImageValue.model_validate
ImageValue_model_validate(message) ==
    IF message.image_ok THEN Returned(None) ELSE Raised("ValidationError")

\* fetch_messages.py:18-24  what handle_single_message does: the exception it
\* raises ("None" if it returns), the envelope it parsed, what is_image_message
\* said of it, and the envelope it gave to ImageValue.model_validate
handle_steps(response_text) ==
    LET parsed == model_validate_json(response_text) IN
    IF parsed.raised # "None"
    THEN [raised |-> parsed.raised, parsed |-> None, image |-> FALSE, validated |-> None]
    ELSE IF is_image_message(The(parsed.value))
         THEN [raised |-> ImageValue_model_validate(The(parsed.value)).raised,
               parsed |-> parsed.value, image |-> TRUE, validated |-> parsed.value]
         ELSE [raised |-> "None", parsed |-> parsed.value, image |-> FALSE,
               validated |-> None]

\* fetch_messages.py:18-24  the exception it raises, "None" if it returns
handle_single_message(response_text) == handle_steps(response_text).raised

\* ------------------------------------------------------------------ broker
\* A message in the queue: its body and the order in which it arrived.
Message(n, body) == [id |-> n, body |-> body]

\* the response text: empty, or one message, or an error page
EmptyText == <<>>
ErrorPage == <<Message(0, Body("error", FALSE, "none", FALSE))>>

\* broker.py:12  DEFAULT_BROKER_URL
BrokerUrl == "https://broker.s3i.vswf.dev"

\* s3i/__init__.py:14-19  the queues of this client's Thing
MessageQueue == "s3ibs://self"
EventQueue == "s3ib://self/event"

\* the queue of another client, to which messages are sent
Endpoints == {"s3ibs://peer"}

\* the messages the caller sends
Envelopes == {[identifier |-> "s3i:1"], [identifier |-> "s3i:2"]}

\* the headers of a response of the broker with that status
HeadersOf(status) == <<"x-status", status>>

\* an event waiting in the event queue
EventText == <<Message(0, Body("event", TRUE, "none", FALSE))>>

\* What the broker can answer to GET <broker_url>/<queue>[/all]: 200 with the
\* oldest message of the message queue (which it removes), with all of them
\* for /all, with an event or nothing for the event queue, with an empty body
\* when there is none, or another status.
GetResponses(event, all, q) ==
    { [status_code |-> 200, text |-> b, headers |-> HeadersOf(200)] :
        b \in (IF event THEN {EmptyText, EventText}
               ELSE IF all THEN {q}
               ELSE IF q = <<>> THEN {EmptyText} ELSE {<<Head(q)>>}) }
    \cup { [status_code |-> s, text |-> b, headers |-> HeadersOf(s)] :
             s \in {204, 401, 500}, b \in {EmptyText, ErrorPage} }

\* the answers to the GET of receive() with its default arguments
BrokerResponses(q) == GetResponses(FALSE, FALSE, q)

\* the message queue after the broker gave that answer
QueueAfterGet(event, all, q, response) ==
    IF event \/ response.status_code # 200 \/ q = <<>> THEN q
    ELSE IF all THEN <<>> ELSE Tail(q)

QueueAfter(q, response) == QueueAfterGet(FALSE, FALSE, q, response)

\* What the broker can answer to POST <broker_url>/<endpoint>
PostResponses ==
    { [status_code |-> s, text |-> b, headers |-> HeadersOf(s)] :
        s \in {200, 201, 500}, b \in {EmptyText, ErrorPage} }

\* exceptions.py:4-29  an S3IException and what it carries
S3IError(type, headers, body, status_code, response) ==
    [type |-> type, headers |-> headers, body |-> body, status_code |-> status_code,
     response |-> response]

\* auth.py:117, 140-149, 179-183  the exception a failed obtain_token raised:
\* the ones raised for an error response carry its status and text
AuthError(call) ==
    IF call.raised \in {"AuthenticationException", "InvalidCredentialsException"}
       /\ call.response # None /\ IsErrorStatus(The(call.response).status_code)
    THEN S3IError(call.raised, None, None, Some(The(call.response).status_code),
                  Some(The(call.response).text))
    ELSE S3IError(call.raised, None, None, None, None)

\* an exception of the authenticator wrapped into the broker's own
Propagate_Wrapped(e) == S3IError("S3IException", None, None, e.status_code, e.response)

\* broker.py:95, 129  token = self.auth.obtain_token(), outside any try block
Propagate(e) == e

\* broker.py:131  f"{self.broker_url}/{endpoint}{'/all' if all else ''}"
Url(endpoint, all) == <<BrokerUrl, endpoint, IF all THEN "/all" ELSE "">>

\* a queue choice that ignores `event`
OwnQueue_MessageOnly(event) == MessageQueue

\* broker.py:128  endpoint = self.event_queue if event else self.message_queue
OwnQueue(event) == IF event THEN EventQueue ELSE MessageQueue

\* broker.py:102  if response.status_code != 201
SendFailed_From400(status) == status >= 400
SendFailed(status) == status # 201

\* broker.py:136  if response.status_code != 200
ReceiveFailed_From400(status) == status >= 400
ReceiveFailed(status) == status # 200

\* a check for emptiness that also takes a body of one message for none
NoMessage_UpToOne(text) == Len(text) <= 1

\* broker.py:145  if response.text == ""
NoMessage(text) == text = EmptyText

\* broker.py:95, 129  token = ...: F of the value v, which is computed once
With(v, F(_)) == CHOOSE y \in { F(x) : x \in {v} } : TRUE

\* the record of one send() or receive() call: its arguments, the token that
\* obtain_token returned or the exception it raised, the requests sent to the
\* broker and its response, the exception raised and the value returned
OpRecord(op, event, all, endpoint, message, call, sent, response, raised, error, value) ==
    [op |-> op, event |-> event, all |-> all, endpoint |-> endpoint, message |-> message,
     token |-> call.value, idp_requests |-> Len(call.requests),
     auth_error |-> IF call.raised = "None" THEN None ELSE Some(AuthError(call)),
     sent |-> sent, response |-> response, raised |-> raised,
     error |-> error, value |-> value]

\* broker.py:114-149  Broker.receive(event, all): the authenticator's cache
\* afterwards, the record of its obtain_token call and the record of the call
receive_op(event, all, cache, t, idpResponse, brokerResponse) ==
    With(CallRecord(cache, t, obtain_token(cache, t, idpResponse)), LAMBDA call :
    LET endpoint == OwnQueue(event)
    IN  IF call.raised # "None"
        THEN [cache |-> call.post, call |-> call,
              op |-> OpRecord("receive", event, all, endpoint, None, call, <<>>, None,
                              Propagate(AuthError(call)).type,
                              Some(Propagate(AuthError(call))), None)]
        ELSE LET get == [method |-> "GET", url |-> Url(endpoint, all),
                         headers |-> header(The(call.value))]
                 failed == ReceiveFailed(brokerResponse.status_code)
                 sent == Attempts(<<get>>, failed)
             IN [cache |-> call.post, call |-> call,
                 op |-> IF failed
                        THEN OpRecord("receive", event, all, endpoint, None, call, sent,
                                      Some(brokerResponse), "S3IException",
                                      Some(S3IError("S3IException",
                                                    Some(brokerResponse.headers), None,
                                                    Some(brokerResponse.status_code),
                                                    Some(brokerResponse.text))),
                                      None)
                        ELSE OpRecord("receive", event, all, endpoint, None, call, sent,
                                      Some(brokerResponse), "None", None,
                                      IF NoMessage(brokerResponse.text) THEN None
                                      ELSE Some(<<brokerResponse.status_code,
                                                  brokerResponse.text>>))])

\* broker.py:114-149  Broker.receive() with its default arguments, as the drain
\* loop calls it
receive(cache, t, idpResponse, brokerResponse) ==
    receive_op(FALSE, FALSE, cache, t, idpResponse, brokerResponse)

\* broker.py:82-112  Broker.send(endpoint, message)
send(endpoint, message, cache, t, idpResponse, brokerResponse) ==
    With(CallRecord(cache, t, obtain_token(cache, t, idpResponse)), LAMBDA call :
    IF call.raised # "None"
        THEN [cache |-> call.post, call |-> call,
              op |-> OpRecord("send", FALSE, FALSE, endpoint, Some(message), call, <<>>,
                              None, Propagate(AuthError(call)).type,
                              Some(Propagate(AuthError(call))), None)]
        ELSE LET post == [method |-> "POST", url |-> Url(endpoint, FALSE),
                          headers |-> [ContentType |-> "application/json"]
                                      @@ header(The(call.value)),
                          json |-> message]
                 failed == SendFailed(brokerResponse.status_code)
                 sent == Attempts(<<post>>, failed)
             IN [cache |-> call.post, call |-> call,
                 op |-> IF failed
                        THEN OpRecord("send", FALSE, FALSE, endpoint, Some(message), call,
                                      sent, Some(brokerResponse), "S3IException",
                                      Some(S3IError("S3IException",
                                                    Some(brokerResponse.headers),
                                                    Some(message),
                                                    Some(brokerResponse.status_code),
                                                    Some(brokerResponse.text))),
                                      None)
                        ELSE OpRecord("send", FALSE, FALSE, endpoint, Some(message), call,
                                      sent, Some(brokerResponse), "None", None,
                                      Some(<<brokerResponse.status_code,
                                             brokerResponse.text>>))])

\* ------------------------------------------------------- concurrent callers
\* two threads that call obtain_token on one authenticator
Callers == {"a", "b"}

\* a caller outside obtain_token
IdleCaller ==
    [pc |-> "idle", seen |-> None, branch |-> "none", got |-> Returned(None),
     out |-> Returned(None)]

\* The answers the provider gives to concurrent callers: any token of the
\* longest lifetime, with a refresh token that lives as long, or a refusal.
ConcIdpResponses(cache) ==
    { r \in OkResponses(cache) :
        r.expires_in = MaxLife /\ r.refresh_expires_in = MaxLife }
    \cup { NoFields(401, InvalidClientText) }

\* an assignment that is dropped when the cache is no longer what was read
Assign_IfUnchanged(cache, seen, value) == IF cache = seen THEN value ELSE cache

\* auth.py:109, 112  self.__token = ...: a plain store, whatever the cache
\* holds by now
Assign(cache, seen, value) == value

\* ------------------------------------------------- construction and teardown
\* The HTTP clients: the one the caller made and injects (s3i/__init__.py:13
\* global_client) and the one object number i makes for itself.
InjectedClient == <<"injected", 0>>
OwnClient(i) == <<"own", i>>
Clients == {InjectedClient} \cup { OwnClient(i) : i \in 1..MaxObjects }

\* auth.py:91, broker.py:72  self.external_client = client is None
\* (`given` says whether the constructor was handed a client)
ExternalFlag(given) == ~given

\* auth.py:90, broker.py:71  self.client = client or httpx.Client()
ClientOf(i, given) == IF given THEN InjectedClient ELSE OwnClient(i)

\* auth.py:81-91  an Authenticator; `owner` is the Broker that constructed it,
\* 0 if the caller did; `given` says whether its constructor was handed a client
Authenticator(i, owner, client, given) ==
    [kind |-> "Authenticator", id |-> i, owner |-> owner, client |-> client,
     external_client |-> ExternalFlag(given)]

\* broker.py:70-75  a Broker
BrokerObject(i, client, given) ==
    [kind |-> "Broker", id |-> i, owner |-> 0, client |-> client,
     external_client |-> ExternalFlag(given)]

\* auth.py:95, broker.py:79  if not self.external_client: self.client.close()
ClosesOnDel(o) == ~o.external_client

\* ------------------------------------------------------------------- state
VARIABLES
    now,          \* the clock
    token,        \* BaseAuthenticator.__token: None or the cached Token
    lastCall,     \* the record of the latest obtain_token call, None before it
    queue,        \* the broker's message queue of this client
    arrived,      \* how many messages ever arrived
    drain,        \* where fetch_s3i_messages is
    result,       \* fetch_s3i_messages: result
    exceptions,   \* fetch_s3i_messages: exceptions
    receives,     \* broker.receive() calls of this invocation
    handled,      \* ids of the messages given to handle_single_message
    launched,     \* the queue when the invocation started
    outcome,      \* what the invocation's caller sees once it has ended
    polled,       \* the URLs of the GET requests the drain loop has issued
    lastOp,       \* the record of the latest direct send() / receive() call
    passes,       \* the records of the passes through the loop body run alone
    callers,      \* per concurrent caller of obtain_token, where it is in the call
    started,      \* obtain_token calls the concurrent callers have started
    lastWrite,    \* the latest assignment to the cache by a concurrent caller
    live,         \* the Brokers and Authenticators that exist
    dead,         \* those whose __del__ has run
    closes,       \* per HTTP client, how often close() was called on it
    made          \* how many objects the program has constructed itself

authVars == <<token, lastCall>>
drainVars == <<drain, result, exceptions, receives, handled, launched, outcome, polled>>
lifeVars == <<live, dead, closes, made>>
concVars == <<callers, started, lastWrite>>
otherVars == <<lastOp, passes, live, dead, closes, made>>
vars == <<now, token, lastCall, queue, arrived, drain, result, exceptions, receives,
          handled, launched, outcome, polled, lastOp, passes, live, dead, closes,
          made, callers, started, lastWrite>>

\* auth.py:88  self.__token = None; the background task has not been launched
Init ==
    /\ now = 0
    /\ token = None
    /\ lastCall = None
    /\ queue = <<>>
    /\ arrived = 0
    /\ drain = "Idle"
    /\ result = None
    /\ exceptions = <<>>
    /\ receives = 0
    /\ handled = <<>>
    /\ launched = <<>>
    /\ outcome = None
    /\ polled = {}
    /\ lastOp = None
    /\ passes = <<>>
    /\ callers = [c \in Callers |-> IdleCaller]
    /\ started = 0
    /\ lastWrite = None
    /\ live = {}
    /\ dead = {}
    /\ closes = [c \in Clients |-> 0]
    /\ made = 0

\* the clock advances
Tick ==
    /\ now < MaxTime
    /\ now' = now + 1
    /\ UNCHANGED <<authVars, queue, arrived, drainVars, otherVars, concVars>>

\* a direct call of obtain_token on the authenticator
ObtainToken ==
    \E response \in IdpResponses(token) :
        LET r == obtain_token(token, now, response) IN
        /\ token' = r.cache
        /\ lastCall' = Some(CallRecord(token, now, r))
        /\ UNCHANGED <<now, queue, arrived, drainVars, otherVars, concVars>>

\* another client sends a message to this client's queue, before the drain starts
Arrive ==
    /\ drain = "Idle"
    /\ arrived < MaxMsgs
    /\ \E body \in DrainBodies :
         queue' = Append(queue, Message(arrived + 1, body))
    /\ arrived' = arrived + 1
    /\ UNCHANGED <<now, authVars, drainVars, otherVars, concVars>>

\* fetch_messages.py:45-47 launch_fetch_s3i_messages, fetch_messages.py:31
Launch ==
    /\ drain = "Idle"
    /\ drain' = "Polling"
    /\ exceptions' = <<>>
    /\ launched' = queue
    /\ UNCHANGED <<now, authVars, queue, arrived, result, receives, handled, outcome, polled,
                   otherVars, concVars>>

\* the ExceptionGroup of fetch_messages.py:41
ExceptionGroup(excs) == [type |-> "ExceptionGroup", exceptions |-> excs]
\* an exception that is no group and carries no others
Single(e) == [type |-> e, exceptions |-> <<>>]

\* a loop that ends after its first receive()
LoopEnds_AtOnce(value) == TRUE

\* fetch_messages.py:33  while (result := broker.receive()) is not None
LoopEnds(value) == value = None

\* an accumulator that keeps only the latest failure
Accumulate_Latest(excs, e) == <<e>>

\* fetch_messages.py:37-38  except Exception as e: exceptions.append(e)
Accumulate(excs, e) == Append(excs, e)

\* fetch_messages.py:33 and 40-41: one evaluation of the loop condition, and the
\* end of the function when receive() returns None or raises
Poll ==
    /\ drain = "Polling"
    /\ \E idpResponse \in DrainIdpResponses(token), brokerResponse \in BrokerResponses(queue) :
         \E r \in {receive(token, now, idpResponse, brokerResponse)} :
         /\ token' = r.cache
         /\ lastCall' = Some(r.call)
         /\ queue' = IF r.op.sent = <<>> THEN queue ELSE QueueAfter(queue, brokerResponse)
         /\ receives' = receives + 1
         /\ polled' = polled \cup { r.op.sent[i].url : i \in 1..Len(r.op.sent) }
         /\ IF r.op.raised # "None"
            THEN /\ drain' = "ReceiveFailed"
                 /\ outcome' = Some(Single(r.op.raised))
                 /\ result' = None
            ELSE IF LoopEnds(r.op.value)
            THEN /\ drain' = IF exceptions # <<>> THEN "EmptyWithFailures" ELSE "EmptySuccess"
                 /\ outcome' = IF exceptions # <<>> THEN Some(ExceptionGroup(exceptions))
                               ELSE None
                 /\ result' = None
            ELSE /\ drain' = "Processing"
                 /\ outcome' = outcome
                 /\ result' = r.op.value
    /\ UNCHANGED <<now, arrived, exceptions, handled, launched, otherVars, concVars>>

\* fetch_messages.py:34-38: the body of the loop
Process ==
    /\ drain = "Processing"
    /\ LET response_text == The(result)[2]
           message == response_text[1]
           e == handle_single_message(message.body)
       IN /\ handled' = Append(handled, message.id)
          /\ exceptions' = IF e # "None"
                           THEN Accumulate(exceptions, [msg |-> message.id, type |-> e])
                           ELSE exceptions
    /\ drain' = "Polling"
    /\ UNCHANGED <<now, authVars, queue, arrived, result, receives, launched, outcome, polled,
                   otherVars, concVars>>

\* broker.py:57-75  Broker(self_thing, client): the Broker and the
\* ClientAuthenticator it constructs with its own client (broker.py:73)
NewBroker ==
    /\ made < MaxObjects
    /\ \E given \in BOOLEAN :
         LET i == made + 1
             client == ClientOf(i, given)
         IN live' = live \cup { BrokerObject(i, client, given),
                                Authenticator(i, i, client, TRUE) }
    /\ made' = made + 1
    /\ UNCHANGED <<now, authVars, queue, arrived, drainVars, lastOp, passes, dead, closes,
                   concVars>>

\* auth.py:197-214  ClientAuthenticator(id, secret, client) made by the caller
NewAuthenticator ==
    /\ made < MaxObjects
    /\ \E given \in BOOLEAN :
         live' = live \cup { Authenticator(made + 1, 0, ClientOf(made + 1, given), given) }
    /\ made' = made + 1
    /\ UNCHANGED <<now, authVars, queue, arrived, drainVars, lastOp, passes, dead, closes,
                   concVars>>

\* auth.py:93-96, broker.py:77-80  __del__; the Authenticator of a Broker is
\* referenced by it and is collected after it
Del ==
    \E o \in live :
        /\ \A b \in live : ~(b.kind = "Broker" /\ o.kind = "Authenticator" /\ o.owner = b.id)
        /\ live' = live \ {o}
        /\ dead' = dead \cup {o}
        /\ closes' = IF ClosesOnDel(o)
                     THEN [closes EXCEPT ![o.client] = @ + 1]
                     ELSE closes
        /\ UNCHANGED <<now, authVars, queue, arrived, drainVars, lastOp, passes, made,
                   concVars>>

\* a message reaches this client's message queue at the broker
Deliver ==
    /\ arrived < MaxMsgs
    /\ queue' = Append(queue, Message(arrived + 1, Body("getValueRequest", TRUE, "none", FALSE)))
    /\ arrived' = arrived + 1
    /\ UNCHANGED <<now, authVars, drainVars, otherVars, concVars>>

\* a direct call of Broker.send
Send ==
    \E endpoint \in Endpoints, message \in Envelopes,
       idpResponse \in BrokerIdpResponses(token), brokerResponse \in PostResponses :
        \E r \in {send(endpoint, message, token, now, idpResponse, brokerResponse)} :
        /\ token' = r.cache
        /\ lastOp' = Some(r.op)
        /\ UNCHANGED <<now, lastCall, queue, arrived, drainVars, passes, lifeVars, concVars>>

\* a direct call of Broker.receive
Receive ==
    \E event \in BOOLEAN, all \in BOOLEAN, idpResponse \in BrokerIdpResponses(token) :
      \E brokerResponse \in GetResponses(event, all, queue) :
        \E r \in {receive_op(event, all, token, now, idpResponse, brokerResponse)} :
        /\ token' = r.cache
        /\ lastOp' = Some(r.op)
        /\ queue' = IF r.op.sent = <<>> THEN queue
                    ELSE QueueAfterGet(event, all, queue, brokerResponse)
        /\ UNCHANGED <<now, lastCall, arrived, drainVars, passes, lifeVars, concVars>>

\* the authenticator called directly, as time passes
Next == Tick \/ ObtainToken

Spec == Init /\ [][Next]_vars

\* one invocation of the background task, as time passes
DrainNext == Tick \/ Arrive \/ Launch \/ Poll \/ Process

DrainSpec == Init /\ [][DrainNext]_vars

\* the task is one synchronous thread: a loop that can take a step takes it
FairDrainSpec == DrainSpec /\ WF_vars(Poll) /\ WF_vars(Process)

\* auth.py:107-113  a caller enters obtain_token, reads the cache and takes a
\* branch; the reuse branch goes on to line 116
Enter ==
    /\ started < MaxCalls
    /\ \E c \in Callers :
         /\ callers[c].pc = "idle"
         /\ callers' = [callers EXCEPT ![c] =
                [pc |-> IF Branch(token, now) = "reuse" THEN "checking" ELSE "decided",
                 seen |-> token, branch |-> Branch(token, now),
                 got |-> Returned(None), out |-> Returned(None)]]
    /\ started' = started + 1
    /\ UNCHANGED <<now, authVars, queue, arrived, drainVars, lastOp, passes, lifeVars,
                   lastWrite>>

\* auth.py:122-158, 160-183  the caller's request to the provider and the
\* answer; _refresh_token reads self.__token.refresh_token (auth.py:172) from
\* the cache as it is now; an exception leaves obtain_token
Request ==
    \E c \in Callers, response \in ConcIdpResponses(token) :
        /\ callers[c].pc = "decided"
        /\ LET got == IF callers[c].branch = "refresh"
                      THEN IF token = None THEN Raised("AttributeError")
                           ELSE _refresh_token(response)
                      ELSE _get_token_from_idp(response, now)
           IN callers' = [callers EXCEPT ![c] =
                  [@ EXCEPT !.pc = IF got.raised # "None" THEN "done" ELSE "answered",
                            !.got = got,
                            !.out = IF got.raised # "None" THEN got ELSE @]]
        /\ UNCHANGED <<now, authVars, queue, arrived, drainVars, lastOp, passes, lifeVars,
                       started, lastWrite>>

\* auth.py:109, 112  the caller stores what its helper returned
Store ==
    \E c \in Callers :
        /\ callers[c].pc = "answered"
        /\ token' = Assign(token, callers[c].seen, callers[c].got.value)
        /\ lastWrite' = Some([caller |-> c, value |-> callers[c].got.value,
                              seen |-> callers[c].seen, before |-> token])
        /\ callers' = [callers EXCEPT ![c].pc = "checking"]
        /\ UNCHANGED <<now, lastCall, queue, arrived, drainVars, lastOp, passes, lifeVars,
                       started>>

\* auth.py:116-120  the caller reads the cache again and returns it, or raises
\* when it is None
Leave ==
    \E c \in Callers :
        /\ callers[c].pc = "checking"
        /\ callers' = [callers EXCEPT ![c] =
               [@ EXCEPT !.pc = "done",
                         !.out = IF token = None THEN Raised("AuthenticationException")
                                 ELSE Returned(token)]]
        /\ UNCHANGED <<now, authVars, queue, arrived, drainVars, lastOp, passes, lifeVars,
                       started, lastWrite>>

\* the caller is ready for its next call
Again ==
    /\ started < MaxCalls
    /\ \E c \in Callers :
         /\ callers[c].pc = "done"
         /\ callers' = [callers EXCEPT ![c] = IdleCaller]
    /\ UNCHANGED <<now, authVars, queue, arrived, drainVars, lastOp, passes, lifeVars,
                   started, lastWrite>>

\* two callers of obtain_token whose steps interleave, as time passes
ConcNext == Tick \/ Enter \/ Request \/ Store \/ Leave \/ Again

ConcSpec == Init /\ [][ConcNext]_vars

\* fetch_messages.py:34-38  the body of the loop, given a response text
Handle ==
    /\ Len(passes) < MaxMsgs
    /\ \E response_text \in Bodies :
         LET steps == handle_steps(response_text)
             n == Len(passes) + 1
             excs == IF steps.raised # "None"
                     THEN Accumulate(exceptions, [msg |-> n, type |-> steps.raised])
                     ELSE exceptions
         IN /\ exceptions' = excs
            /\ passes' = Append(passes, [body |-> response_text, parsed |-> steps.parsed,
                                         image |-> steps.image,
                                         validated |-> steps.validated,
                                         raised |-> steps.raised,
                                         added |-> Len(excs) - Len(exceptions)])
    /\ UNCHANGED <<now, authVars, queue, arrived, drain, result, receives, handled,
                   launched, outcome, polled, lastOp, lifeVars, concVars>>

\* the handler given one response text after another
HandleNext == Handle

HandleSpec == Init /\ [][HandleNext]_vars

\* the broker client called directly, as time passes and messages arrive
BrokerNext == Tick \/ Deliver \/ Send \/ Receive

BrokerSpec == Init /\ [][BrokerNext]_vars

\* direct receive() calls and launches of the drain loop while no message arrives
ReceiveNext == Receive \/ Launch \/ Poll

ReceiveSpec == Init /\ [][ReceiveNext]_vars

\* objects are constructed and garbage-collected
LifeNext == NewBroker \/ NewAuthenticator \/ Del

LifeSpec == Init /\ [][LifeNext]_vars

\* ======================================================================
\* Properties of the authenticator (checked under Spec)
\* ======================================================================

\* the token a provider response stands for when it is received at time t
ParsedToken(response, t) ==
    Token(response.token_type, response.access_token, t + response.expires_in,
          response.refresh_token, t + response.refresh_expires_in)

\* the provider refused the request of that call, or answered without lifetimes
Refused(c) ==
    c.response # None /\ (The(c.response).status_code >= 400 \/ ~The(c.response).complete)

\* the call started with a cached token whose access expiry was still ahead
CallUnexpired(c) == c.pre # None /\ c.at < The(c.pre).expires_at
\* ... whose access expiry had passed and whose refresh expiry was still ahead
CallRefreshable(c) ==
    c.pre # None /\ c.at >= The(c.pre).expires_at /\ c.at < The(c.pre).refresh_expires_at
\* ... with nothing cached, or with both expiries passed
CallStale(c) ==
    c.pre = None
    \/ (c.at >= The(c.pre).expires_at /\ c.at >= The(c.pre).refresh_expires_at)

\* C1: a call of obtain_token made while a token is cached and the time is
\* strictly before its access expiry sends no request to the identity provider
\* and returns the cached token, which stays cached.
C1_UnexpiredTokenIsReused ==
    \A c \in lastCall :
        CallUnexpired(c) =>
            /\ c.requests = <<>>
            /\ c.raised = "None"
            /\ c.value = c.pre
            /\ c.post = c.pre

\* C2: for the cached token and the current time, expired is true exactly from
\* the access expiry on, and refresh_expired exactly from the refresh expiry on.
C2_ExpiredIffAtOrAfterExpiry ==
    \A T \in token :
        /\ expired(T, now) <=> (now >= T.expires_at)
        /\ refresh_expired(T, now) <=> (now >= T.refresh_expires_at)

\* C3: when obtain_token returns, the time is strictly before the access expiry
\* of the token it returns; when it does not return it raises
\* AuthenticationException (or its subclass). The provider is taken to answer
\* every successful request with a whole token of positive lifetime.
C3_ReturnedTokenIsValid ==
    \A c \in lastCall :
        (c.response = None \/ The(c.response) # MalformedResponse) =>
            IF c.raised = "None"
            THEN c.value # None /\ c.at < The(c.value).expires_at
            ELSE c.raised \in {"AuthenticationException", "InvalidCredentialsException"}

\* C4: a call made with a cached token whose access expiry has passed and whose
\* refresh expiry has not, and which the provider does not refuse, replaces the
\* cache by the token parsed from the provider's response and returns it.
C4_RefreshReplacesCache ==
    \A c \in lastCall :
        (CallRefreshable(c) /\ ~Refused(c)) =>
            /\ c.response # None
            /\ c.raised = "None"
            /\ c.post = Some(ParsedToken(The(c.response), c.at))
            /\ c.value = c.post

\* C5: a call made with a cached token whose access expiry has passed and whose
\* refresh expiry has not sends exactly one request, a refresh grant carrying
\* the cached refresh token.
C5_OneRefreshRequest ==
    \A c \in lastCall :
        CallRefreshable(c) => c.requests = <<RefreshPayload(The(c.pre))>>

\* C6: a call made with nothing cached, or with a cached token whose two
\* expiries have both passed, sends exactly one request, a full grant; if the
\* provider does not refuse it, the token of the response is cached and returned.
C6_OneFullGrantRequest ==
    \A c \in lastCall :
        CallStale(c) =>
            /\ Len(c.requests) = 1
            /\ c.requests[1].grant_type \in {"client_credentials", "password"}
            /\ ~Refused(c) =>
                 /\ c.raised = "None"
                 /\ c.post = Some(ParsedToken(The(c.response), c.at))
                 /\ c.value = c.post

\* the call received an error response (status >= 400)
GotError(c) == c.response # None /\ The(c.response).status_code >= 400

\* C7 as stated: on either path an error response raises
\* InvalidCredentialsException exactly when its body is the invalid-client text,
\* and AuthenticationException otherwise.
C7_InvalidCredentialsOnEitherPath ==
    \A c \in lastCall :
        GotError(c) =>
            c.raised = IF The(c.response).text = InvalidClientText
                       THEN "InvalidCredentialsException"
                       ELSE "AuthenticationException"

\* C7 as amended: on the full-grant path an error response raises
\* InvalidCredentialsException exactly when its body is the invalid-client text
\* and AuthenticationException otherwise; on the refresh-grant path every error
\* response raises AuthenticationException, whatever its body.
C7_InvalidCredentialsOnFullGrant ==
    \A c \in lastCall :
        GotError(c) =>
            /\ c.branch = "full" =>
                 c.raised = IF The(c.response).text = InvalidClientText
                            THEN "InvalidCredentialsException"
                            ELSE "AuthenticationException"
            /\ c.branch = "refresh" => c.raised = "AuthenticationException"

\* C7 witness: a refresh grant was answered with an error whose body is the
\* invalid-client text, and the call raised AuthenticationException
C7_Witness ==
    \E c \in lastCall :
        /\ GotError(c)
        /\ The(c.response).text = InvalidClientText
        /\ c.branch = "refresh"
        /\ c.raised = "AuthenticationException"

\* ======================================================================
\* Properties of the drain loop (checked under DrainSpec, FairDrainSpec)
\* ======================================================================

\* the message raises while it is handled
Fails(m) == handle_single_message(m.body) # "None"

\* the failures of a sequence of messages, in their order
FailuresOf(msgs) ==
    LET f == SelectSeq(msgs, Fails) IN
    [i \in 1..Len(f) |-> [msg |-> f[i].id, type |-> handle_single_message(f[i].body)]]

IdsOf(msgs) == [i \in 1..Len(msgs) |-> msgs[i].id]

EmptyTerminal == {"EmptySuccess", "EmptyWithFailures"}

\* C8: while the loop runs, the messages handled are the first of the queue in
\* order and every failure among them is in the accumulator, in order; when the
\* loop has ended after receive() returned None, receive() was called N + 1
\* times, all N messages were handled, and the invocation returned normally if
\* none of them failed and raised the group of the K failures, in the order of
\* the messages, otherwise.
C8_DrainHandlesEveryMessage ==
    LET N == Len(launched)
        done == SubSeq(launched, 1, Len(handled))
    IN  drain \in {"Polling", "Processing"} \cup EmptyTerminal =>
          /\ Len(handled) <= N
          /\ handled = IdsOf(done)
          /\ exceptions = FailuresOf(done)
          /\ drain \in EmptyTerminal =>
               /\ receives = N + 1
               /\ Len(handled) = N
               /\ IF FailuresOf(launched) = <<>>
                  THEN drain = "EmptySuccess" /\ outcome = None
                  ELSE /\ drain = "EmptyWithFailures"
                       /\ outcome = Some(ExceptionGroup(FailuresOf(launched)))

\* C8 witness: three messages of which the second failed, four receive() calls
C8_Witness ==
    /\ drain = "EmptyWithFailures"
    /\ Len(launched) = 3
    /\ receives = 4
    /\ handled = <<1, 2, 3>>
    /\ Len(exceptions) = 1
    /\ exceptions[1].msg = 2

\* C9: an invocation that has failed shows its caller an error that enumerates
\* every failure accumulated so far, also when receive() itself raised; once a
\* message has failed, that error is the group.
C9_FailureIsAlwaysTheGroup ==
    drain \in {"EmptyWithFailures", "ReceiveFailed"} =>
        /\ outcome # None
        /\ The(outcome).exceptions = exceptions
        /\ exceptions # <<>> => The(outcome).type = "ExceptionGroup"

\* the steps of Polling -> (Processing -> Polling) | done
DrainStep(from, to) ==
    \/ from = "Idle" /\ to = "Polling"
    \/ from = "Polling" /\ to \in {"Processing", "ReceiveFailed"} \cup EmptyTerminal
    \/ from = "Processing" /\ to = "Polling"

\* C10: the loop only moves Polling -> Processing -> Polling or Polling -> done;
\* it ends in Empty-success or Empty-with-failures only by a receive() that
\* returned None, with the queue empty; and a loop that polls ends, in one of
\* those two states unless a receive() raised.
C10_DrainTerminatesOnEmptyQueue ==
    /\ [][drain' # drain => DrainStep(drain, drain')]_vars
    /\ [][(drain' \in EmptyTerminal /\ drain \notin EmptyTerminal) =>
            (drain = "Polling" /\ receives' = receives + 1 /\ result' = None
             /\ queue = <<>> /\ queue' = <<>>)]_vars
    /\ [](drain \in EmptyTerminal => queue = <<>>)
    /\ (drain = "Polling") ~> (drain \in EmptyTerminal \/ drain = "ReceiveFailed")

\* C10 witness: a drain of a queue that held messages ended with the queue empty
C10_Witness ==
    /\ drain \in EmptyTerminal
    /\ Len(launched) >= 2
    /\ queue = <<>>
    /\ receives = Len(launched) + 1

\* ======================================================================
\* Properties of construction and teardown (checked under LifeSpec)
\* ======================================================================

\* the top-level objects that made a client for themselves
MadeOwnClient(o) == o.owner = 0 /\ o.client = OwnClient(o.id)

\* the object and every object it constructed have been torn down
TornDown(o) ==
    /\ o \in dead
    /\ \A a \in live : a.owner # o.id

\* C11: the client the caller injected is never closed by the teardown of a
\* Broker or an Authenticator, and the teardown of the Authenticator that a
\* Broker constructed never closes the client the Broker handed to it.
C11_InjectedClientNeverClosed ==
    /\ closes[InjectedClient] = 0
    /\ \A o \in dead : (o.kind = "Authenticator" /\ o.owner # 0) => ~ClosesOnDel(o)

\* C12: a client an object made for itself is closed at most once, and exactly
\* once when the object and the objects it constructed have been torn down.
C12_OwnClientClosedOnce ==
    \A o \in live \cup dead :
        MadeOwnClient(o) =>
            /\ closes[o.client] <= 1
            /\ TornDown(o) => closes[o.client] = 1

\* ------------------------------------------------------ Broker.send / receive
\* the latest direct calls that got a response from the broker
Answered(op) == { o \in lastOp : o.op = op /\ o.response # None }

\* the S3IException that send / receive raise for that response
BrokerError(response, body) ==
    S3IError("S3IException", Some(response.headers), body, Some(response.status_code),
             Some(response.text))

\* C13: send(endpoint, message) returns (201, response text) exactly when the
\* broker answers 201; for every other status, 200 included, it raises an
\* S3IException with that status, the response headers, the message that was
\* to be sent and the response text.
C13_SendSucceedsOnlyOn201 ==
    \A o \in Answered("send") :
        LET response == The(o.response) IN
        IF response.status_code = 201
        THEN o.raised = "None" /\ o.value = Some(<<201, response.text>>)
        ELSE /\ o.raised = "S3IException"
             /\ o.value = None
             /\ o.error = Some(BrokerError(response, o.message))

\* a send that the broker answered with 200 raised
C13_Witness ==
    \E o \in Answered("send") :
        The(o.response).status_code = 200 /\ o.raised = "S3IException"

\* C14 as stated: receive() returns None if and only if the body of the
\* broker's response is empty, and otherwise returns (status, text).
C14_NoneIffEmptyBody ==
    \A o \in Answered("receive") :
        LET response == The(o.response) IN
        /\ (o.raised = "None" /\ o.value = None) <=> response.text = EmptyText
        /\ response.text # EmptyText =>
               o.value = Some(<<response.status_code, response.text>>)

\* C14 amended: when the broker answers 200, receive() returns None if and
\* only if the body is empty, and otherwise returns (200, text).
C14_NoneIffEmptyBodyOn200 ==
    \A o \in Answered("receive") :
        LET response == The(o.response) IN
        response.status_code = 200 =>
            /\ o.raised = "None"
            /\ o.value = None <=> response.text = EmptyText
            /\ response.text # EmptyText => o.value = Some(<<200, response.text>>)

\* a receive that got one message with status 200 returned it
C14_Witness ==
    \E o \in Answered("receive") :
        /\ The(o.response).status_code = 200
        /\ Len(The(o.response).text) = 1
        /\ o.value = Some(<<200, The(o.response).text>>)

\* C15: receive() raises an S3IException with the status, the headers and the
\* text of the response whenever the status is not 200, whether or not the
\* body is empty; status 200 with an empty body is not an error.
C15_ReceiveFailsUnless200 ==
    \A o \in Answered("receive") :
        LET response == The(o.response) IN
        /\ response.status_code # 200 =>
               /\ o.raised = "S3IException"
               /\ o.error = Some(BrokerError(response, None))
        /\ (response.status_code = 200 /\ response.text = EmptyText) =>
               o.raised = "None" /\ o.error = None

\* a receive that the broker answered with 204 and an empty body raised
C15_Witness ==
    \E o \in Answered("receive") :
        /\ The(o.response).status_code = 204
        /\ The(o.response).text = EmptyText
        /\ o.raised = "S3IException"

\* C16: when obtain_token raises inside send or receive, the caller gets that
\* same exception, an AuthenticationException or InvalidCredentialsException
\* with the same fields, and not an S3IException of the broker.
C16_AuthErrorPropagatesUnchanged ==
    \A o \in lastOp :
        o.auth_error # None =>
            /\ o.error = o.auth_error
            /\ o.raised = The(o.auth_error).type
            /\ o.raised \in {"AuthenticationException", "InvalidCredentialsException"}
            /\ o.value = None

\* a receive whose obtain_token was refused with a server error
C16_Witness ==
    \E o \in lastOp :
        /\ o.op = "receive"
        /\ o.auth_error # None
        /\ The(o.auth_error).status_code = Some(500)
        /\ o.raised = "AuthenticationException"

\* C17: one send or receive makes at most one request to the identity
\* provider and at most one to the broker; after a failed request it makes no
\* other and the caller gets the exception.
C17_NoInternalRetry ==
    \A o \in lastOp :
        /\ o.idp_requests <= 1
        /\ Len(o.sent) <= 1
        /\ o.auth_error # None => o.sent = <<>> /\ o.raised # "None"
        /\ (o.op = "send" /\ o.response # None
              /\ The(o.response).status_code # 201) => o.raised # "None"
        /\ (o.op = "receive" /\ o.response # None
              /\ The(o.response).status_code # 200) => o.raised # "None"

\* a send that asked the provider once, the broker once, and failed there
C17_Witness ==
    \E o \in lastOp :
        /\ o.op = "send"
        /\ o.idp_requests = 1
        /\ Len(o.sent) = 1
        /\ The(o.response).status_code = 500
        /\ o.raised = "S3IException"

\* C18: receive(event, all) sends its GET to <broker_url>/<queue>[/all]: the
\* event queue if event is true and the message queue otherwise, with /all
\* exactly when all is true; the drain loop polls only the message queue,
\* without /all.
C18_ReceiveTargetsOwnQueue ==
    /\ \A o \in lastOp :
           o.op = "receive" =>
               \A i \in 1..Len(o.sent) :
                   /\ o.sent[i].method = "GET"
                   /\ o.sent[i].url = <<BrokerUrl,
                                       IF o.event THEN EventQueue ELSE MessageQueue,
                                       IF o.all THEN "/all" ELSE "">>
    /\ polled \subseteq {<<BrokerUrl, MessageQueue, "">>}

\* the drain loop has polled, and a receive(event=True, all=True) sent its GET
C18_Witness ==
    /\ polled # {}
    /\ \E o \in lastOp :
           o.op = "receive" /\ o.event /\ o.all /\ Len(o.sent) = 1

\* ------------------------------------------------------ handle_single_message
\* C19: is_image_message is true of a parsed envelope exactly when it is a
\* getValueReply whose value map has type "b64 jpeg"; the handler gives only
\* such envelopes to ImageValue.model_validate; a parsed envelope of which it
\* is false is handled without an exception and adds none to the list.
C19_OnlyImageRepliesAreValidated ==
    \A i \in 1..Len(passes) :
        LET p == passes[i] IN
        /\ p.parsed # None =>
               (p.image <=> /\ The(p.parsed).messageType = "getValueReply"
                            /\ The(p.parsed).value_type = "b64 jpeg")
        /\ p.validated # None => p.image /\ p.validated = p.parsed
        /\ (p.parsed # None /\ ~p.image) =>
               p.validated = None /\ p.raised = "None" /\ p.added = 0

\* a request that carries a "b64 jpeg" value map went through without effect,
\* and an image reply was validated
C19_Witness ==
    /\ \E i \in 1..Len(passes) :
           /\ passes[i].parsed # None
           /\ passes[i].body.messageType = "getValueRequest"
           /\ passes[i].body.value_type = "b64 jpeg"
           /\ passes[i].added = 0
    /\ \E i \in 1..Len(passes) : passes[i].validated # None

\* ------------------------------------------------------------ frame of the cache
\* C20: a call of obtain_token that raises leaves the cache as it was; a call
\* changes the cache only to the token built from the provider's response,
\* and never empties it.
C20_RaiseLeavesCacheUntouched ==
    \A c \in lastCall :
        /\ c.raised # "None" => c.post = c.pre
        /\ c.post # c.pre =>
               /\ c.response # None
               /\ ~Refused(c)
               /\ c.post = Some(ParsedToken(The(c.response), c.at))

\* ------------------------------------------------ authorization of requests
\* C21: every request that send or receive issues to the broker follows, in
\* the same call, an obtain_token that returned a token, and carries the
\* Authorization header "<scheme> <token>" of that token (a POST also carries
\* Content-Type: application/json); when obtain_token raises, the call sends
\* no request to the broker.
C21_RequestsCarryTheObtainedToken ==
    \A o \in lastOp :
        /\ o.sent # <<>> => o.token # None /\ o.auth_error = None
        /\ \A i \in 1..Len(o.sent) :
               /\ o.sent[i].headers.Authorization =
                      <<The(o.token).auth_scheme, The(o.token).token_content>>
               /\ o.op = "send" => o.sent[i].headers.ContentType = "application/json"
        /\ o.auth_error # None => o.sent = <<>> /\ o.response = None

\* a send carried the token that its obtain_token had just been granted
C21_Witness ==
    \E o \in lastOp :
        /\ o.op = "send"
        /\ Len(o.sent) = 1
        /\ o.token # None
        /\ o.sent[1].headers.Authorization = <<"Bearer", The(o.token).token_content>>

\* ------------------------------------------------------- concurrent callers
\* C22: obtain_token reads the cache, decides and stores in separate steps:
\* whatever another caller stored in between, a caller's store replaces it, so
\* the cache holds the value stored last.
C22_LastStoreWins ==
    \A w \in lastWrite : token = w.value

\* both callers read the same cache and asked the provider for a grant; one
\* stored its token, then the other stored a different one over it
C22_Witness ==
    \E c \in Callers, d \in Callers, w \in lastWrite :
        /\ c # d
        /\ w.caller = d
        /\ callers[c].seen = callers[d].seen
        /\ callers[c].branch \in {"full", "refresh"}
        /\ callers[c].branch = callers[d].branch
        /\ callers[c].pc \in {"checking", "done"}
        /\ callers[c].got.raised = "None"
        /\ w.before = callers[c].got.value
        /\ w.before # w.seen
        /\ w.value # w.before
        /\ token = w.value

====
